---- MODULE Spec2Model ----
(***************************************************************************)
(* Model of the UCN transmission analysis (transmission.py, UCN.py):       *)
(* ReadCycles filters the cycles of the input file into the experiment     *)
(* accumulators, Transmission reduces every experiment, Normalize divides  *)
(* one experiment's transmission by a reference experiment's.              *)
(*                                                                         *)
(* Numbers.  Every Python number is an exact rational <<n, d>> in lowest   *)
(* terms with d > 0 (floating-point rounding is not modelled).  A standard *)
(* error, which the code obtains with math.sqrt, is carried as its square  *)
(* (the names end in "sq"); a square root of a non-negative number is      *)
(* fixed by its square, so equality of squares is equality of the errors.  *)
(* Hit times are in seconds, as rationals.                                 *)
(***************************************************************************)
EXTENDS Integers, Sequences, FiniteSets, TLC

VARIABLES
  infile,   \* infile.cycledata: the cycle stream ReadCycles is given
  calls,    \* the Normalize calls of the main program, in order
  pos,      \* the number of cycles ReadCycles has consumed
  ex,       \* experiments: the list of experiment dictionaries
  pc,       \* where the main program is
  idx,      \* the index of the loop the main program is in
  ret,      \* what the last Normalize call returned
  err,      \* the exception that ended the program, "" for none
  call,     \* the arguments of a call of a function of UCN.py
  result    \* what that call returned

vars == <<infile, calls, pos, ex, pc, idx, ret, err, call, result>>

\* ------------------------------------------------------------ bounds
\* longest cycle stream of the pipeline specification
MaxCycles == 3
\* longest argument list of the pure-function specification
MaxLen == 2

\* ------------------------------------------------------------ numbers
\* Python's floats are kept as exact fractions <<numerator, denominator>> in
\* lowest terms with a positive denominator.

\* the element of a one-element set: The({ e(v) : v \in {x} }) is e(x) with x
\* computed once
The(S) == CHOOSE v \in S : TRUE

Abs(n) == IF n < 0 THEN -n ELSE n

RECURSIVE GCD(_, _)
GCD(a, b) == IF b = 0 THEN a ELSE GCD(b, a % b)

\* the rational n/d in lowest terms, d /= 0
R(n, d) ==
  LET g == GCD(Abs(n), Abs(d))
      s == IF d < 0 THEN -1 ELSE 1
  IN  <<(s * n) \div g, (s * d) \div g>>

Zero == <<0, 1>>
One == <<1, 1>>
I(n) == <<n, 1>>

\* a + b over the least common denominator
RAdd(a, b) ==
  LET g == GCD(a[2], b[2])
  IN  R(a[1] * (b[2] \div g) + b[1] * (a[2] \div g), (a[2] \div g) * b[2])
RNeg(a) == <<-a[1], a[2]>>
RSub(a, b) == RAdd(a, RNeg(b))
\* a * b, reduced crosswise before multiplying
RMul(a, b) ==
  IF a[1] = 0 \/ b[1] = 0 THEN Zero
  ELSE The({ R(p[1] * q[1], p[2] * q[2]) : p \in {R(a[1], b[2])}, q \in {R(b[1], a[2])} })
\* a / b for b /= 0 (Python raises ZeroDivisionError for b = 0: the callers test it)
RDiv(a, b) == RMul(a, R(b[2], b[1]))
RSq(a) == RMul(a, a)
RLt(a, b) == a[1] * b[2] < b[1] * a[2]
RLe(a, b) == a[1] * b[2] <= b[1] * a[2]
RMaxOf(a, b) == IF RLt(a, b) THEN b ELSE a
RMinOf(a, b) == IF RLt(b, a) THEN b ELSE a

RECURSIVE RSum(_)
RSum(s) == IF s = <<>> THEN Zero ELSE RAdd(s[1], RSum(Tail(s)))

\* min(...) and max(...) of a non-empty list
RECURSIVE RMin(_)
RMin(s) == IF Len(s) = 1 THEN s[1] ELSE RMinOf(RMin(Tail(s)), s[1])
RECURSIVE RMax(_)
RMax(s) == IF Len(s) = 1 THEN s[1] ELSE RMaxOf(RMax(Tail(s)), s[1])

\* numpy.mean of a non-empty list
Mean(s) == RDiv(RSum(s), I(Len(s)))
\* numpy.std(s) squared: the population variance (ddof = 0)
StdSq(s) ==
  The({ RDiv(RSum([i \in 1..Len(s) |-> RSq(RSub(s[i], m))]), I(Len(s))) : m \in {Mean(s)} })

\* ------------------------------------------------------------ configuration
\* UCN.DetectorBackground: detector |-> (rate, uncertainty); the uncertainty is
\* kept unsquared here and squared where the code squares it
DetectorBackground ==
  [li6 |-> <<R(216, 100), R(3, 100)>>, he3 |-> <<R(403, 10000), R(17, 10000)>>]

countperiod == 1
monitorperiod == 0
backgroundperiod == 10

\* experiment identifiers (ex['TCN']) are strings: tuples of characters
T18065 == <<"1", "8", "-", "0", "6", "5">>
T18265 == <<"1", "8", "-", "2", "6", "5">>
T18215 == <<"1", "8", "-", "2", "1", "5">>
A0 == <<"_", "0", "A">>
A25 == <<"_", "2", "5", "A">>

\* the experiment table handed to ReadCycles: three rows in the shape of the
\* table of transmission.py; run 1054 is configured for two experiments
Experiments ==
  << [TCN |-> T18265 \o A25, runs |-> <<1087>>],
     [TCN |-> T18065 \o A0, runs |-> <<1054>>],
     [TCN |-> T18065 \o A25, runs |-> <<1054, 1055>>] >>

NEx == Len(Experiments)

\* run in ex['runs']
InRuns(run, runs) == \E i \in 1..Len(runs) : runs[i] = run

\* str.startswith
StartsWith(s, prefix) ==
  /\ Len(prefix) <= Len(s)
  /\ \A i \in 1..Len(prefix) : s[i] = prefix[i]

\* ------------------------------------------------------------ cycles
\* One hit-list entry [t, n] stands for n hits with timestamp t.
GoodCycle ==
  [ runnumber |-> 1054, cyclenumber |-> 1, start |-> 5000,
    countsLi6 |-> (0 :> 110 @@ 1 :> 1000 @@ 10 :> 20),
    countsHe3 |-> (0 :> 900 @@ 1 :> 300),
    durations |-> (0 :> I(50) @@ 1 :> I(100) @@ 10 :> I(2)),
    B1V_KSM_PREDCUR |-> <<I(1), I(1)>>,
    UCN_UGD_IV1_STATON |-> <<0, 1>>,
    UCN_EXP_IG5_RDVAC |-> <<Zero>>,
    UCN_ISO_TS11_RDTEMP |-> <<R(9, 10)>>,
    UCN_ISO_TS12_RDTEMP |-> <<R(8, 10), R(9, 10)>>,
    UCN_ISO_TS14_RDTEMP |-> <<I(1)>>,
    UCN_ISO_PG9L_RDPRESS |-> <<I(1), R(3, 2)>>,
    UCN_ISO_PG9H_RDPRESS |-> <<I(3)>>,
    SCMVoltages3 |-> <<R(1, 1000)>>,
    beamonduration |-> I(60), beamoffduration |-> R(241, 2),
    Li6hits |-> << [t |-> R(1301, 10), n |-> 11], [t |-> I(125), n |-> 4] >>,
    He3hits |-> << [t |-> I(45), n |-> 3], [t |-> I(70), n |-> 2] >>,
    Li6channel |-> <<1, 1, 2>> ]

\* beam-current samples: steady 1.0, 0.05, 0.1, and 1.0 +- 0.02, 1.0 +- 0.03
Beams ==
  { <<I(1), I(1)>>, <<R(5, 100), R(5, 100)>>, <<R(1, 10), R(1, 10)>>,
    <<R(98, 100), R(102, 100)>>, <<R(97, 100), R(103, 100)>> }
\* Li6 counts of period 0, counting period, background period
Li6Counts ==
  { (0 :> 110 @@ 1 :> c @@ 10 :> b) : c \in {1000, 999}, b \in {0, 20, 21} }
He3Counts == { (0 :> 900 @@ 1 :> h) : h \in {300, 299} }
IV1s == { <<0, 1>>, <<0, 0>> }
\* vacuum gauge readings: off, below the band, its two ends, inside, above
IG5s ==
  { <<Zero>>, <<R(1, 100000000)>>, <<R(1, 10000000)>>, <<Zero, R(1, 100000)>>,
    <<R(1, 100)>>, <<I(1)>> }

\* one cycle for every combination of the filtered quantities
FilterCycles ==
  { [GoodCycle EXCEPT !.B1V_KSM_PREDCUR = b, !.countsLi6 = l, !.countsHe3 = h,
                      !.UCN_UGD_IV1_STATON = v, !.UCN_EXP_IG5_RDVAC = g] :
      b \in Beams, l \in Li6Counts, h \in He3Counts, v \in IV1s, g \in IG5s }

\* the cycles of the longer streams: accepted cycles of three runs, one with no
\* He3 hit in (d0 - 10, d0), and a rejected one
StreamCycles ==
  { [GoodCycle EXCEPT !.runnumber = 1087, !.start = 1000],
    GoodCycle,
    [GoodCycle EXCEPT !.cyclenumber = 2, !.start = 5100,
                      !.He3hits = << [t |-> I(40), n |-> 5] >>],
    [GoodCycle EXCEPT !.runnumber = 1055, !.cyclenumber = 3, !.start = 6000],
    [GoodCycle EXCEPT !.cyclenumber = 4, !.start = 5200,
                      !.B1V_KSM_PREDCUR = <<R(5, 100), I(1)>>] }

\* cycles of a run no experiment uses
UnusedCycles ==
  { [GoodCycle EXCEPT !.runnumber = 999, !.start = 7000],
    [GoodCycle EXCEPT !.runnumber = 999, !.start = 7100, !.countsHe3 = (0 :> 900 @@ 1 :> 299)] }

\* cycles with other hits and durations: one whose Li6 hits never put more
\* than 10 into a bin, one with Li6 and He3 hits in the last bins of the axes,
\* and two with a background period of no duration
OtherCycles ==
  { [GoodCycle EXCEPT !.start = 7400 + b,
                      !.countsLi6 = (0 :> 110 @@ 1 :> 1000 @@ 10 :> b),
                      !.durations = (0 :> I(50) @@ 1 :> I(100) @@ 10 :> Zero)] :
      b \in {0, 1} } \cup
  { [GoodCycle EXCEPT !.runnumber = 1087, !.start = 7200,
                      !.Li6hits = << [t |-> R(1301, 10), n |-> 10], [t |-> I(125), n |-> 4] >>],
    [GoodCycle EXCEPT !.runnumber = 1087, !.start = 7300,
                      !.Li6hits = << [t |-> R(1301, 10), n |-> 11], [t |-> R(17999, 100), n |-> 2] >>,
                      !.He3hits = << [t |-> I(45), n |-> 3], [t |-> I(175), n |-> 4] >>] }

RECURSIVE SeqsUpTo(_, _)
SeqsUpTo(S, n) ==
  IF n = 0 THEN {<<>>}
  ELSE LET shorter == SeqsUpTo(S, n - 1)
       IN  shorter \cup { Append(s, x) : s \in shorter, x \in S }

\* the cycle streams a run of the pipeline may be given
Streams ==
  SeqsUpTo(StreamCycles, MaxCycles)
    \cup { <<c>> : c \in FilterCycles \cup UnusedCycles \cup OtherCycles }

\* ------------------------------------------------------------ histograms
\* A ROOT TH1D with nbins equal bins over [xmin, xmax): bins maps the numbers of
\* the bins that were filled (0 is the underflow, nbins + 1 the overflow bin) to
\* their content c and squared error w2; every other bin holds 0.
Floor(a) == a[1] \div a[2]

TH1D(nbins, xmin, xmax) ==
  [nbins |-> nbins, xmin |-> xmin, xmax |-> xmax, bins |-> <<>>]

\* TAxis::FindBin
FindBin(h, t) ==
  IF RLt(t, h.xmin) THEN 0
  ELSE IF RLe(h.xmax, t) THEN h.nbins + 1
  ELSE 1 + Floor(RDiv(RMul(I(h.nbins), RSub(t, h.xmin)), RSub(h.xmax, h.xmin)))

GetBinContent(h, b) == IF b \in DOMAIN h.bins THEN h.bins[b].c ELSE 0

\* rate.Fill(t) for each of the n hits of one hit-list entry, and rate.Sumw2():
\* the squared error of a bin filled with unit weights is its content
RECURSIVE FillAll(_, _)
FillAll(h, hits) ==
  IF hits = <<>> THEN h
  ELSE LET b == FindBin(h, hits[1].t)
           c == GetBinContent(h, b) + hits[1].n
           filled == [x \in DOMAIN h.bins \cup {b} |->
                        IF x = b THEN [c |-> c, w2 |-> c] ELSE h.bins[x]]
       IN  FillAll([h EXCEPT !.bins = filled], Tail(hits))

\* TH1::FindFirstBinAbove: the first bin of the axis range above the threshold, or -1
FindFirstBinAbove(h, threshold) ==
  LET above == { b \in DOMAIN h.bins : b >= 1 /\ b <= h.nbins /\ h.bins[b].c > threshold }
  IN  IF above = {} THEN -1
      ELSE CHOOSE b \in above : \A x \in above : b <= x

\* TAxis::GetBinLowEdge
GetBinLowEdge(h, b) ==
  RAdd(h.xmin, RMul(I(b - 1), RDiv(RSub(h.xmax, h.xmin), I(h.nbins))))

\* len([t for t in hits if lo < t < hi])
RECURSIVE CountBetween(_, _, _)
CountBetween(hits, lo, hi) ==
  IF hits = <<>> THEN 0
  ELSE (IF RLt(lo, hits[1].t) /\ RLt(hits[1].t, hi) THEN hits[1].n ELSE 0)
       + CountBetween(Tail(hits), lo, hi)

\* ------------------------------------------------------------ accumulators
\* the per-cycle lists ReadCycles sets to [] (lines 15-44)
InitialisedLists ==
  { "start", "cyclenumber", "beamcurrent", "li6counts", "countduration",
    "monitorcounts", "monitorduration", "li6counts2", "countduration2",
    "monitorcounts2", "monitorduration2", "li6background", "he3background",
    "li6irradiation", "he3irradiation", "irradiationduration",
    "backgroundduration", "mintemperature", "maxtemperature",
    "minvaporpressure", "maxvaporpressure", "SCMcurrent", "Li6rate", "He3rate",
    "li6window", "productionrate", "productionrateerr" }

\* An experiment dictionary: keys holds the keys that are set; a field whose key
\* is not set holds a placeholder that nothing reads.
NewExperiment(row) ==
  [ TCN |-> row.TCN, runs |-> row.runs, keys |-> {"TCN", "runs"},
    start |-> <<>>, cyclenumber |-> <<>>, beamcurrent |-> <<>>,
    li6counts |-> <<>>, countduration |-> <<>>, monitorcounts |-> <<>>,
    monitorduration |-> <<>>, li6counts2 |-> <<>>, countduration2 |-> <<>>,
    monitorcounts2 |-> <<>>, monitorduration2 |-> <<>>, li6background |-> <<>>,
    he3background |-> <<>>, li6irradiation |-> <<>>, he3irradiation |-> <<>>,
    irradiationduration |-> <<>>, backgroundduration |-> <<>>,
    mintemperature |-> <<>>, maxtemperature |-> <<>>, minvaporpressure |-> <<>>,
    maxvaporpressure |-> <<>>, SCMcurrent |-> <<>>, Li6rate |-> <<>>,
    He3rate |-> <<>>, li6window |-> <<>>, productionrate |-> <<>>,
    productionrateerr |-> <<>>, channels |-> <<>>,
    li6backgroundrate |-> Zero, li6backgroundrateerrsq |-> Zero,
    li6irradiationrate |-> <<>>, li6irradiationrateerrsq |-> <<>>,
    transmission |-> Zero, transmissionerr |-> Zero,
    transmission2 |-> Zero, transmission2err |-> Zero ]

\* ------------------------------------------------------------ ReadCycles
\* some experiment uses the cycle's run (line 53)
RunIsUsed(run, experiments) ==
  \E e \in 1..Len(experiments) : InRuns(run, experiments[e].runs)

\* Filter without the test of line 68 for an empty background period
FilterNoEmptyPeriodTest(cycle) ==
  LET Li6 == cycle.countsLi6
      He3 == cycle.countsHe3
      d == cycle.durations
      beam == cycle.B1V_KSM_PREDCUR
  IN  IF RLt(RMin(beam), R(1, 10)) THEN "beam current dropped"
      ELSE IF RLt(R(4, 10000), StdSq(beam)) THEN "beam current fluctuated"
      ELSE IF \A i \in 1..Len(cycle.UCN_UGD_IV1_STATON) :
                 cycle.UCN_UGD_IV1_STATON[i] < 1
           THEN "IV1 never opened"
      ELSE IF \E i \in 1..Len(cycle.UCN_EXP_IG5_RDVAC) :
                 /\ RLt(R(1, 10000000), cycle.UCN_EXP_IG5_RDVAC[i])
                 /\ RLt(cycle.UCN_EXP_IG5_RDVAC[i], R(1, 100))
           THEN "IG5 was on"
      ELSE IF RLt(I(Li6[countperiod]), RMul(I(10), d[countperiod]))
           THEN "Li6 sees only background"
      ELSE IF RLt(RMul(I(10), d[backgroundperiod]), I(Li6[backgroundperiod]))
           THEN "Li6 sees high background"
      ELSE IF He3[countperiod] < 300 THEN "not enough monitor counts"
      ELSE "accept"

\* Filter with the band of line 74 closed: <= for <
FilterClosedBand(cycle) ==
  LET Li6 == cycle.countsLi6
      He3 == cycle.countsHe3
      d == cycle.durations
      beam == cycle.B1V_KSM_PREDCUR
  IN  IF RLt(RMin(beam), R(1, 10)) THEN "beam current dropped"
      ELSE IF RLt(R(4, 10000), StdSq(beam)) THEN "beam current fluctuated"
      ELSE IF Li6[10] = 0 THEN "not all periods contain Li6 data"
      ELSE IF \A i \in 1..Len(cycle.UCN_UGD_IV1_STATON) :
                 cycle.UCN_UGD_IV1_STATON[i] < 1
           THEN "IV1 never opened"
      ELSE IF \E i \in 1..Len(cycle.UCN_EXP_IG5_RDVAC) :
                 /\ RLe(R(1, 10000000), cycle.UCN_EXP_IG5_RDVAC[i])
                 /\ RLe(cycle.UCN_EXP_IG5_RDVAC[i], R(1, 100))
           THEN "IG5 was on"
      ELSE IF RLt(I(Li6[countperiod]), RMul(I(10), d[countperiod]))
           THEN "Li6 sees only background"
      ELSE IF RLt(RMul(I(10), d[backgroundperiod]), I(Li6[backgroundperiod]))
           THEN "Li6 sees high background"
      ELSE IF He3[countperiod] < 300 THEN "not enough monitor counts"
      ELSE "accept"

\* Filter with the monitor floor of line 86 off by one: <= 300 for < 300
FilterMonitorFloorOff(cycle) ==
  LET Li6 == cycle.countsLi6
      He3 == cycle.countsHe3
      d == cycle.durations
      beam == cycle.B1V_KSM_PREDCUR
  IN  IF RLt(RMin(beam), R(1, 10)) THEN "beam current dropped"
      ELSE IF RLt(R(4, 10000), StdSq(beam)) THEN "beam current fluctuated"
      ELSE IF Li6[10] = 0 THEN "not all periods contain Li6 data"
      ELSE IF \A i \in 1..Len(cycle.UCN_UGD_IV1_STATON) :
                 cycle.UCN_UGD_IV1_STATON[i] < 1
           THEN "IV1 never opened"
      ELSE IF \E i \in 1..Len(cycle.UCN_EXP_IG5_RDVAC) :
                 /\ RLt(R(1, 10000000), cycle.UCN_EXP_IG5_RDVAC[i])
                 /\ RLt(cycle.UCN_EXP_IG5_RDVAC[i], R(1, 100))
           THEN "IG5 was on"
      ELSE IF RLt(I(Li6[countperiod]), RMul(I(10), d[countperiod]))
           THEN "Li6 sees only background"
      ELSE IF RLt(RMul(I(10), d[backgroundperiod]), I(Li6[backgroundperiod]))
           THEN "Li6 sees high background"
      ELSE IF He3[countperiod] <= 300 THEN "not enough monitor counts"
      ELSE "accept"

\* the chain of filters of lines 61-88: the reason the cycle is skipped for, in
\* the order the code tests them, or "accept"
Filter(cycle) ==
  LET Li6 == cycle.countsLi6
      He3 == cycle.countsHe3
      d == cycle.durations
      beam == cycle.B1V_KSM_PREDCUR
  IN  IF RLt(RMin(beam), R(1, 10)) THEN "beam current dropped"
      ELSE IF RLt(R(4, 10000), StdSq(beam)) THEN "beam current fluctuated"
      ELSE IF Li6[10] = 0 THEN "not all periods contain Li6 data"
      ELSE IF \A i \in 1..Len(cycle.UCN_UGD_IV1_STATON) :
                 cycle.UCN_UGD_IV1_STATON[i] < 1
           THEN "IV1 never opened"
      ELSE IF \E i \in 1..Len(cycle.UCN_EXP_IG5_RDVAC) :
                 /\ RLt(R(1, 10000000), cycle.UCN_EXP_IG5_RDVAC[i])
                 /\ RLt(cycle.UCN_EXP_IG5_RDVAC[i], R(1, 100))
           THEN "IG5 was on"
      ELSE IF RLt(I(Li6[countperiod]), RMul(I(10), d[countperiod]))
           THEN "Li6 sees only background"
      ELSE IF RLt(RMul(I(10), d[backgroundperiod]), I(Li6[backgroundperiod]))
           THEN "Li6 sees high background"
      ELSE IF He3[countperiod] < 300 THEN "not enough monitor counts"
      ELSE "accept"

\* the two rate histograms of a cycle (lines 110-119): Li6 with 20 bins per
\* second, He3 with one, over [0, duration)
RateHistogram(cycle, det) ==
  LET duration == Floor(RAdd(cycle.beamonduration, cycle.beamoffduration))
  IN  IF det = "Li6"
      THEN FillAll(TH1D(duration * 20, Zero, I(duration)), cycle.Li6hits)
      ELSE FillAll(TH1D(duration, Zero, I(duration)), cycle.He3hits)

\* the Li6 window of a cycle (lines 125-126)
Li6Window(rate) ==
  LET triggertime == RSub(GetBinLowEdge(rate, FindFirstBinAbove(rate, 10)), I(60))
  IN  <<triggertime, RAdd(triggertime, I(10))>>

he3window == <<I(-10), Zero>>

\* AppendCycle without the append to li6window of line 126
AppendCycleNoWindow(x, cycle) ==
  LET d == cycle.durations
      temps == << RMin(cycle.UCN_ISO_TS11_RDTEMP), RMin(cycle.UCN_ISO_TS12_RDTEMP),
                  RMin(cycle.UCN_ISO_TS14_RDTEMP) >>
      tempsmax == << RMax(cycle.UCN_ISO_TS11_RDTEMP), RMax(cycle.UCN_ISO_TS12_RDTEMP),
                     RMax(cycle.UCN_ISO_TS14_RDTEMP) >>
      press == IF RLe(I(2), RMax(cycle.UCN_ISO_PG9L_RDPRESS))
               THEN cycle.UCN_ISO_PG9H_RDPRESS
               ELSE cycle.UCN_ISO_PG9L_RDPRESS
      li6rate == RateHistogram(cycle, "Li6")
      window == Li6Window(li6rate)
  IN  [x EXCEPT
        !.start = Append(@, cycle.start),
        !.cyclenumber = Append(@, cycle.cyclenumber),
        !.beamcurrent = Append(@, cycle.B1V_KSM_PREDCUR),
        !.mintemperature = Append(@, RMin(temps)),
        !.maxtemperature = Append(@, RMax(tempsmax)),
        !.minvaporpressure = Append(@, RMin(press)),
        !.maxvaporpressure = Append(@, RMax(press)),
        !.SCMcurrent = Append(@, [i \in 1..Len(cycle.SCMVoltages3) |->
                                    RDiv(cycle.SCMVoltages3[i], R(250, 1000000))]),
        !.Li6rate = Append(@, li6rate),
        !.He3rate = Append(@, RateHistogram(cycle, "He3")),
        !.li6counts = Append(@, cycle.countsLi6[countperiod]),
        !.countduration = Append(@, d[countperiod]),
        !.monitorcounts = Append(@, cycle.countsHe3[countperiod]),
        !.monitorduration = Append(@, d[countperiod]),
        !.li6counts2 = Append(@, CountBetween(cycle.Li6hits,
                                   RAdd(d[monitorperiod], window[1]),
                                   RAdd(d[monitorperiod], window[2]))),
        !.countduration2 = Append(@, RSub(window[2], window[1])),
        !.monitorcounts2 = Append(@, CountBetween(cycle.He3hits,
                                       RAdd(d[monitorperiod], he3window[1]),
                                       RAdd(d[monitorperiod], he3window[2]))),
        !.monitorduration2 = Append(@, RSub(he3window[2], he3window[1])),
        !.li6background = Append(@, cycle.countsLi6[backgroundperiod]),
        !.backgroundduration = Append(@, d[backgroundperiod]),
        !.li6irradiation = Append(@, cycle.countsLi6[0]),
        !.irradiationduration = Append(@, d[0]),
        !.channels = FillAll(@, [i \in 1..Len(cycle.Li6channel) |->
                                   [t |-> I(cycle.Li6channel[i]), n |-> 1]]) ]

\* the body of "for ex in experiments" for an experiment that uses the run
\* (lines 97-138): one entry appended to each list it fills
AppendCycle(x, cycle) ==
  LET d == cycle.durations
      temps == << RMin(cycle.UCN_ISO_TS11_RDTEMP), RMin(cycle.UCN_ISO_TS12_RDTEMP),
                  RMin(cycle.UCN_ISO_TS14_RDTEMP) >>
      tempsmax == << RMax(cycle.UCN_ISO_TS11_RDTEMP), RMax(cycle.UCN_ISO_TS12_RDTEMP),
                     RMax(cycle.UCN_ISO_TS14_RDTEMP) >>
      press == IF RLe(I(2), RMax(cycle.UCN_ISO_PG9L_RDPRESS))
               THEN cycle.UCN_ISO_PG9H_RDPRESS
               ELSE cycle.UCN_ISO_PG9L_RDPRESS
      li6rate == RateHistogram(cycle, "Li6")
      window == Li6Window(li6rate)
  IN  [x EXCEPT
        !.start = Append(@, cycle.start),
        !.cyclenumber = Append(@, cycle.cyclenumber),
        !.beamcurrent = Append(@, cycle.B1V_KSM_PREDCUR),
        !.mintemperature = Append(@, RMin(temps)),
        !.maxtemperature = Append(@, RMax(tempsmax)),
        !.minvaporpressure = Append(@, RMin(press)),
        !.maxvaporpressure = Append(@, RMax(press)),
        !.SCMcurrent = Append(@, [i \in 1..Len(cycle.SCMVoltages3) |->
                                    RDiv(cycle.SCMVoltages3[i], R(250, 1000000))]),
        !.Li6rate = Append(@, li6rate),
        !.He3rate = Append(@, RateHistogram(cycle, "He3")),
        !.li6counts = Append(@, cycle.countsLi6[countperiod]),
        !.countduration = Append(@, d[countperiod]),
        !.monitorcounts = Append(@, cycle.countsHe3[countperiod]),
        !.monitorduration = Append(@, d[countperiod]),
        !.li6window = Append(@, window),
        !.li6counts2 = Append(@, CountBetween(cycle.Li6hits,
                                   RAdd(d[monitorperiod], window[1]),
                                   RAdd(d[monitorperiod], window[2]))),
        !.countduration2 = Append(@, RSub(window[2], window[1])),
        !.monitorcounts2 = Append(@, CountBetween(cycle.He3hits,
                                       RAdd(d[monitorperiod], he3window[1]),
                                       RAdd(d[monitorperiod], he3window[2]))),
        !.monitorduration2 = Append(@, RSub(he3window[2], he3window[1])),
        !.li6background = Append(@, cycle.countsLi6[backgroundperiod]),
        !.backgroundduration = Append(@, d[backgroundperiod]),
        !.li6irradiation = Append(@, cycle.countsLi6[0]),
        !.irradiationduration = Append(@, d[0]),
        !.channels = FillAll(@, [i \in 1..Len(cycle.Li6channel) |->
                                   [t |-> I(cycle.Li6channel[i]), n |-> 1]]) ]

\* ProcessCycle leaving the loop over the experiments after the first one that
\* uses the run
ProcessCycleFirstOnly(experiments, cycle) ==
  LET first == CHOOSE e \in 1..Len(experiments) :
                 /\ InRuns(cycle.runnumber, experiments[e].runs)
                 /\ \A h \in 1..(e - 1) : ~InRuns(cycle.runnumber, experiments[h].runs)
  IN  IF ~RunIsUsed(cycle.runnumber, experiments) THEN experiments
      ELSE IF Filter(cycle) /= "accept" THEN experiments
      ELSE [experiments EXCEPT ![first] = AppendCycle(experiments[first], cycle)]

\* one iteration of "for cycle in infile.cycledata" (lines 50-138)
ProcessCycle(experiments, cycle) ==
  IF ~RunIsUsed(cycle.runnumber, experiments) THEN experiments
  ELSE IF Filter(cycle) /= "accept" THEN experiments
  ELSE [e \in 1..Len(experiments) |->
          IF InRuns(cycle.runnumber, experiments[e].runs)
          THEN AppendCycle(experiments[e], cycle)
          ELSE experiments[e]]

\* lines 14-48: every list is set to [], the channel histogram is created
ReadCyclesBegin ==
  /\ pc = "start"
  /\ ex' = [e \in 1..NEx |->
              [ex[e] EXCEPT !.keys = @ \cup InitialisedLists \cup {"channels"},
                            !.channels = TH1D(10, Zero, I(10))]]
  /\ pc' = "ReadCycles"
  /\ UNCHANGED <<infile, calls, pos, idx, ret, err, call, result>>

ReadCycle ==
  /\ pc = "ReadCycles"
  /\ pos < Len(infile)
  /\ ex' = ProcessCycle(ex, infile[pos + 1])
  /\ pos' = pos + 1
  /\ UNCHANGED <<infile, calls, pc, idx, ret, err, call, result>>

\* the stream is exhausted: ReadCycles returns and main starts its loop over
\* the experiments (lines 140, 414)
ReadCyclesEnd ==
  /\ pc = "ReadCycles"
  /\ pos = Len(infile)
  /\ pc' = "Transmission"
  /\ idx' = 1
  /\ UNCHANGED <<infile, calls, pos, ex, ret, err, call, result>>

\* ------------------------------------------------------------ UCN.py
Min2(a, b) == IF a < b THEN a ELSE b

\* SubtractBackgroundAndNormalize with "c >= 0" for "c > 0" in its two list
\* comprehensions
SubtractBackgroundAndNormalizeCountZero(counts, countdurations, bg, normalization, normalizationerrsq) ==
  LET n == Min2(Len(counts), Len(countdurations))
      k == Min2(n, Len(normalization))
      kk == Min2(k, Len(normalizationerrsq))
      bgsubs == { [i \in 1..n |->
                     IF RLe(Zero, counts[i])
                     THEN RSub(counts[i], RMul(bg[1], countdurations[i]))
                     ELSE Zero] }
      bgsuberrsqs == { [i \in 1..n |->
                          IF RLe(Zero, counts[i])
                          THEN RAdd(counts[i], RMul(RSq(bg[2]), RSq(countdurations[i])))
                          ELSE Zero] }
  IN  IF \E i \in 1..k : normalization[i] = Zero
      THEN [raised |-> TRUE, norm |-> <<>>, normerrsq |-> <<>>]
      ELSE The({ [raised |-> FALSE,
                  norm |-> [i \in 1..k |-> RDiv(bgsub[i], normalization[i])],
                  normerrsq |-> [i \in 1..kk |->
                     The({ RAdd(RDiv(bgsuberrsq[i], msq), RMul(RMul(normalizationerrsq[i], q), q)) :
                           msq \in {RSq(normalization[i])},
                           q \in {RDiv(bgsub[i], RSq(normalization[i]))} })]] :
                bgsub \in bgsubs, bgsuberrsq \in bgsuberrsqs })

\* UCN.SubtractBackgroundAndNormalize (UCN.py lines 60-67).  bg is the pair
\* DetectorBackground[detector]; normalizationerrsq holds the squares of
\* normalizationerr.  zip stops at the shortest of its lists.  The division by a
\* normalization of 0 raises ZeroDivisionError: raised is TRUE and nothing is
\* returned.
SubtractBackgroundAndNormalize(counts, countdurations, bg, normalization, normalizationerrsq) ==
  LET n == Min2(Len(counts), Len(countdurations))
      k == Min2(n, Len(normalization))
      kk == Min2(k, Len(normalizationerrsq))
      bgsubs == { [i \in 1..n |->
                     IF RLt(Zero, counts[i])
                     THEN RSub(counts[i], RMul(bg[1], countdurations[i]))
                     ELSE Zero] }
      bgsuberrsqs == { [i \in 1..n |->
                          IF RLt(Zero, counts[i])
                          THEN RAdd(counts[i], RMul(RSq(bg[2]), RSq(countdurations[i])))
                          ELSE Zero] }
  IN  IF \E i \in 1..k : normalization[i] = Zero
      THEN [raised |-> TRUE, norm |-> <<>>, normerrsq |-> <<>>]
      ELSE The({ [raised |-> FALSE,
                  norm |-> [i \in 1..k |-> RDiv(bgsub[i], normalization[i])],
                  normerrsq |-> [i \in 1..kk |->
                     The({ RAdd(RDiv(bgsuberrsq[i], msq), RMul(RMul(normalizationerrsq[i], q), q)) :
                           msq \in {RSq(normalization[i])},
                           q \in {RDiv(bgsub[i], RSq(normalization[i]))} })]] :
                bgsub \in bgsubs, bgsuberrsq \in bgsuberrsqs })

\* SubtractBackgroundAndNormalizeRate handing back the normalized counts
\* undivided by the durations
SubtractBackgroundAndNormalizeRateUndivided(counts, countdurations, bg, normalization, normalizationerrsq) ==
  The({ IF r.raised \/ \E i \in 1..Min2(Len(r.norm), Len(countdurations)) :
                        countdurations[i] = Zero
        THEN [raised |-> TRUE, norm |-> <<>>, normerrsq |-> <<>>]
        ELSE [raised |-> FALSE,
              norm |-> [i \in 1..Min2(Len(r.norm), Len(countdurations)) |->
                          r.norm[i]],
              normerrsq |-> [i \in 1..Min2(Len(r.normerrsq), Len(countdurations)) |->
                               RDiv(r.normerrsq[i], RSq(countdurations[i]))]] :
        r \in { SubtractBackgroundAndNormalize(counts, countdurations, bg,
                                                normalization, normalizationerrsq) } })

\* UCN.SubtractBackgroundAndNormalizeRate (UCN.py lines 70-72)
SubtractBackgroundAndNormalizeRate(counts, countdurations, bg, normalization, normalizationerrsq) ==
  The({ IF r.raised \/ \E i \in 1..Min2(Len(r.norm), Len(countdurations)) :
                        countdurations[i] = Zero
        THEN [raised |-> TRUE, norm |-> <<>>, normerrsq |-> <<>>]
        ELSE [raised |-> FALSE,
              norm |-> [i \in 1..Min2(Len(r.norm), Len(countdurations)) |->
                          RDiv(r.norm[i], countdurations[i])],
              normerrsq |-> [i \in 1..Min2(Len(r.normerrsq), Len(countdurations)) |->
                               RDiv(r.normerrsq[i], RSq(countdurations[i]))]] :
        r \in { SubtractBackgroundAndNormalize(counts, countdurations, bg,
                                                normalization, normalizationerrsq) } })

\* UCN.BackgroundRate (UCN.py lines 75-78): (rate, squared error), or raised when
\* the durations sum to 0
BackgroundRate(counts, durations) ==
  The({ IF d = Zero THEN [raised |-> TRUE, rate |-> Zero, errsq |-> Zero]
        ELSE [raised |-> FALSE, rate |-> RDiv(c, d), errsq |-> RDiv(c, RSq(d))] :
        c \in {RSum(counts)}, d \in {RSum(durations)} })

\* ------------------------------------------------------------ Transmission
\* What graph.Fit(transfit, 'QS') hands back for the constant fit: the parameter
\* GetParams()[0], its error GetErrors()[0] and Chi2().  The fit is ROOT's; the
\* model takes any of these results.
FitResults ==
  { [p |-> I(2), e |-> R(1, 10), chi2 |-> I(3)],
    [p |-> R(1, 2), e |-> R(1, 5), chi2 |-> R(1, 2)],
    [p |-> I(-1), e |-> R(1, 10), chi2 |-> I(1)] }

\* Ndf() of the constant fit to the points (y, yerr): the points less the one
\* parameter.  ROOT decides which points with yerr = 0 it fits: with such points
\* Ndf() is any number up to that.
Ndfs(yerrsq) ==
  IF \A i \in 1..Len(yerrsq) : yerrsq[i] /= Zero
  THEN {Len(yerrsq) - 1}
  ELSE 0..(Len(yerrsq) - 1)

Ints(s) == [i \in 1..Len(s) |-> I(s[i])]

\* lines 182-183 and 200-201: the error of the fit times max(chi2/ndf, 1);
\* chi2/ndf raises ZeroDivisionError for ndf = 0
ScaledError(f, ndf) == RMul(f.e, RMaxOf(RDiv(f.chi2, I(ndf)), One))

\* the normalized points of the two fits of Transmission (lines 169, 188)
CountingPoints(x) ==
  SubtractBackgroundAndNormalize(
    Ints(x.li6counts), x.countduration, DetectorBackground.li6,
    Ints(x.monitorcounts), Ints(x.monitorcounts))
IrradiationPoints(x) ==
  SubtractBackgroundAndNormalize(
    Ints(x.li6counts2), x.countduration2, DetectorBackground.li6,
    Ints(x.monitorcounts2), Ints(x.monitorcounts2))

\* Transmission(ex) up to its first fit (lines 143-175): the experiment as it is
\* left and the error raised ("" for none)
TransmissionRates(x) ==
  The({ IF bgr.raised THEN [x |-> x, err |-> "ZeroDivisionError"]
        ELSE The({ IF irr.raised THEN [x |-> x1, err |-> "ZeroDivisionError"]
                   ELSE The({ IF \/ \E i \in 1..Len(x.start) : x.monitorcounts[i] = 0
                                 \/ CountingPoints(x).raised
                              THEN [x |-> x2, err |-> "ZeroDivisionError"]
                              ELSE [x |-> x2, err |-> ""] :
                              x2 \in { [x1 EXCEPT
                                         !.keys = @ \cup {"li6irradiationrate",
                                                          "li6irradiationrateerr"},
                                         !.li6irradiationrate = irr.norm,
                                         !.li6irradiationrateerrsq = irr.normerrsq] } }) :
                   x1 \in { [x EXCEPT
                              !.keys = @ \cup {"li6backgroundrate", "li6backgroundrateerr"},
                              !.li6backgroundrate = bgr.rate,
                              !.li6backgroundrateerrsq = bgr.errsq] },
                   irr \in { SubtractBackgroundAndNormalizeRate(
                               Ints(x.li6irradiation), x.irradiationduration,
                               DetectorBackground.li6,
                               [i \in 1..Len(x.start) |-> Mean(x.beamcurrent[i])],
                               [i \in 1..Len(x.start) |-> StdSq(x.beamcurrent[i])]) } }) :
        bgr \in { BackgroundRate(Ints(x.li6background), x.backgroundduration) } })

\* The histograms Transmission works on carry weights.  Their bins are given
\* as: content c[b] and squared error w2[b] (fractions) for the bins in listed,
\* the values of flat for every other bin below nflat, which is what
\* "for b in range(nflat): SetBinContent(b, ..); SetBinError(b, ..)" leaves,
\* and 0 for the rest.
NoBin == [c |-> Zero, w2 |-> Zero]

\* a histogram of ReadCycles (filled with unit weights, Sumw2 called) or one
\* that Transmission has worked on, in the above form
Weighted(h) ==
  IF "flat" \in DOMAIN h THEN h
  ELSE [nbins |-> h.nbins, xmin |-> h.xmin, xmax |-> h.xmax,
        listed |-> DOMAIN h.bins,
        c |-> [b \in DOMAIN h.bins |-> I(h.bins[b].c)],
        w2 |-> [b \in DOMAIN h.bins |-> I(h.bins[b].w2)],
        flat |-> NoBin, nflat |-> 0]

\* content and squared error of bin b (0 the underflow, nbins + 1 the overflow)
RetrieveBinContent(h, b) ==
  IF b \in h.listed THEN h.c[b]
  ELSE IF b < h.nflat THEN h.flat.c
  ELSE Zero
GetBinErrorSqUnchecked(h, b) ==
  IF b \in h.listed THEN h.w2[b]
  ELSE IF b < h.nflat THEN h.flat.w2
  ELSE Zero

\* TAxis::GetBinWidth of an axis of equal bins: the same for every bin number
GetBinWidth(h) == RDiv(RSub(h.xmax, h.xmin), I(h.nbins))

\* a new TH1D and the loop "for b in range(h.GetNbinsX())" setting content c and
\* error sqrt(w2) (lines 239-243, 251-254, 270-273): bins 0 to nbins - 1
FlatHistogram(nbins, xmin, xmax, c, w2) ==
  [nbins |-> nbins, xmin |-> xmin, xmax |-> xmax,
   listed |-> {}, c |-> <<>>, w2 |-> <<>>,
   flat |-> [c |-> c, w2 |-> w2], nflat |-> nbins]

\* TH1::Add(h1, c1) on h: bin by bin, under- and overflow included,
\* content + c1 * content1 and w2 + c1^2 * w2_1
Add(h, h1, c1) ==
  LET lo == Min2(h.nflat, h1.nflat)
      hi == IF h.nflat < h1.nflat THEN h1.nflat ELSE h.nflat
      zeroflat == (IF h.nflat <= h1.nflat THEN h.flat ELSE h1.flat) = NoBin
      listed == h.listed \cup h1.listed
                  \cup (IF zeroflat THEN {} ELSE lo..(hi - 1))
  IN  [nbins |-> h.nbins, xmin |-> h.xmin, xmax |-> h.xmax,
       listed |-> listed,
       c |-> [b \in listed |->
                RAdd(RetrieveBinContent(h, b), RMul(c1, RetrieveBinContent(h1, b)))],
       w2 |-> [b \in listed |->
                 RAdd(GetBinErrorSqUnchecked(h, b),
                      RMul(RSq(c1), GetBinErrorSqUnchecked(h1, b)))],
       flat |-> [c |-> RAdd(h.flat.c, RMul(c1, h1.flat.c)),
                 w2 |-> RAdd(h.flat.w2, RMul(RSq(c1), h1.flat.w2))],
       nflat |-> IF zeroflat THEN hi ELSE lo]

\* the sum of f over the set S of its arguments
RECURSIVE SumBins(_, _)
SumBins(f, S) ==
  IF S = {} THEN Zero
  ELSE LET b == CHOOSE x \in S : TRUE
       IN  RAdd(f[b], SumBins(f, S \ {b}))

\* TH1::Rebin(ngroup) on h: nbins / ngroup bins, each the sum of ngroup bins
\* (contents and squared errors); the underflow stays, the bins left over go
\* to the overflow and the axis ends with the last bin kept
Rebin(h, ngroup) ==
  LET newbins == h.nbins \div ngroup
      group(k) == IF k = 0 THEN {0}
                  ELSE IF k <= newbins THEN ((k - 1) * ngroup + 1)..(k * ngroup)
                  ELSE (newbins * ngroup + 1)..(h.nbins + 1)
      sum(f, flat, S) ==
        RAdd(SumBins(f, S \cap h.listed),
             RMul(I(Cardinality({ b \in S : b \notin h.listed /\ b < h.nflat })), flat))
  IN  [nbins |-> newbins, xmin |-> h.xmin,
       xmax |-> GetBinLowEdge(h, newbins * ngroup + 1),
       listed |-> 0..(newbins + 1),
       c |-> [k \in 0..(newbins + 1) |-> sum(h.c, h.flat.c, group(k))],
       w2 |-> [k \in 0..(newbins + 1) |-> sum(h.w2, h.flat.w2, group(k))],
       flat |-> NoBin, nflat |-> 0]

\* TH1::Divide(h1) on h: bin by bin, under- and overflow included, c0/c1 with
\* squared error (w2_0 c1^2 + w2_1 c0^2) / c1^4, and 0 with error 0 where c1 = 0
Divide(h, h1) ==
  [nbins |-> h.nbins, xmin |-> h.xmin, xmax |-> h.xmax,
   listed |-> 0..(h.nbins + 1),
   c |-> [b \in 0..(h.nbins + 1) |->
            IF RetrieveBinContent(h1, b) = Zero THEN Zero
            ELSE RDiv(RetrieveBinContent(h, b), RetrieveBinContent(h1, b))],
   w2 |-> [b \in 0..(h.nbins + 1) |->
             IF RetrieveBinContent(h1, b) = Zero THEN Zero
             ELSE RDiv(RAdd(RMul(GetBinErrorSqUnchecked(h, b),
                                 RSq(RetrieveBinContent(h1, b))),
                            RMul(GetBinErrorSqUnchecked(h1, b),
                                 RSq(RetrieveBinContent(h, b)))),
                       RSq(RSq(RetrieveBinContent(h1, b))))],
   flat |-> NoBin, nflat |-> 0]

\* the flat Li6 background histogram (lines 239-244) on the axis of the first
\* cycle's Li6 histogram (line 220)
li6background(x) ==
  FlatHistogram(x.Li6rate[1].nbins, x.Li6rate[1].xmin, x.Li6rate[1].xmax,
                RMul(DetectorBackground.li6[1], GetBinWidth(x.Li6rate[1])),
                RSq(RMul(DetectorBackground.li6[2], GetBinWidth(x.Li6rate[1]))))

\* the flat normalization histogram of a cycle with monitor count m (lines
\* 251-255, 270-274): int(nbins / 4.) bins, content m, error sqrt(m)
normhist(x, m) ==
  FlatHistogram(x.Li6rate[1].nbins \div 4, x.Li6rate[1].xmin, x.Li6rate[1].xmax,
                I(m), I(m))

\* li6copy of cycle i as line 256 (275) leaves it: the clone of the cycle's Li6
\* histogram less the background, rebinned by 4, divided by normhist
li6copy(x, i, m) ==
  Divide(Rebin(Add(Weighted(x.Li6rate[i]), li6background(x), I(-1)), 4),
         normhist(x, m))

\* the loop of lines 292-303 over zip(ex['Li6rate'], ex['He3rate']): it works
\* on the histograms of the accumulator themselves
RateRatio(x) ==
  [x EXCEPT
    !.Li6rate = [i \in 1..Min2(Len(x.Li6rate), Len(x.He3rate)) |->
                   Divide(Rebin(Add(Weighted(x.Li6rate[i]), li6background(x), I(-1)),
                                Floor(RDiv(I(10), GetBinWidth(x.Li6rate[1])))),
                          Rebin(Weighted(x.He3rate[i]), 10))],
    !.He3rate = [i \in 1..Min2(Len(x.Li6rate), Len(x.He3rate)) |->
                   Rebin(Weighted(x.He3rate[i]), 10)] ]

\* Transmission(ex) from its first fit on (lines 176-314), given what the two
\* fits hand back and, in ratio, what the loop of lines 292-303 makes of the
\* histograms.  The plots and spectra of lines 204-291 are kept as the keys
\* they set (the cycles of the model hold vapor pressures PrintTemperatureVsCycle
\* converts).
TransmissionFits(x2, ratio, f, ndf, f2, ndf2) ==
  LET spectra(z) ==
        [z EXCEPT !.keys = @ \cup {"Li6rate_normalized", "Li6rate_normalized2"},
                  !.Li6rate = ratio.Li6rate, !.He3rate = ratio.He3rate]
      x3 == [x2 EXCEPT !.keys = @ \cup {"transmission"}, !.transmission = f.p]
      x4(z) == [z EXCEPT !.keys = @ \cup {"transmissionerr"},
                         !.transmissionerr = ScaledError(f, ndf)]
      x5(z) == [z EXCEPT !.keys = @ \cup {"transmission2"}, !.transmission2 = f2.p]
      x6(z) == [z EXCEPT !.keys = @ \cup {"transmission2err"},
                         !.transmission2err = ScaledError(f2, ndf2)]
  IN  IF ndf = 0 THEN [x |-> x3, err |-> "ZeroDivisionError"]
      ELSE IF ~(\A i \in 1..Len(x2.monitorcounts2) : x2.monitorcounts2[i] > 0)
           THEN [x |-> spectra(x4(x3)), err |-> ""]
      ELSE IF ndf2 = 0 THEN [x |-> x5(x4(x3)), err |-> "ZeroDivisionError"]
      ELSE [x |-> spectra(x6(x5(x4(x3)))), err |-> ""]

\* Transmission(ex) (lines 143-314)
Transmission(x, f, ndf, f2, ndf2) ==
  IF Len(x.start) = 0 THEN [x |-> x, err |-> ""]
  ELSE The({ IF rates.err /= "" THEN rates
             ELSE TransmissionFits(rates.x, RateRatio(rates.x), f, ndf, f2, ndf2) :
             rates \in {TransmissionRates(x)} })

\* one turn of "for ex in experiments: Transmission(ex)" (lines 414-415): the
\* call Transmission(ex[idx]) for the results f, f2 of the fits it reaches, its
\* part before the fits and its loop over the histograms being evaluated once
TransmissionStep ==
  /\ pc = "Transmission"
  /\ idx <= NEx
  /\ \E r \in IF Len(ex[idx].start) = 0
              THEN {[x |-> ex[idx], err |-> ""]}
              ELSE UNION { IF rates.err /= "" THEN {rates}
                           ELSE { TransmissionFits(rates.x, ratio, f, ndf, f2, ndf2) :
                                    ratio \in {RateRatio(rates.x)},
                                    f \in FitResults,
                                    f2 \in IF \A i \in 1..Len(rates.x.start) :
                                                rates.x.monitorcounts2[i] > 0
                                           THEN FitResults
                                           ELSE {CHOOSE g \in FitResults : TRUE},
                                    ndf \in Ndfs(CountingPoints(rates.x).normerrsq),
                                    ndf2 \in IF \A i \in 1..Len(rates.x.start) :
                                                  rates.x.monitorcounts2[i] > 0
                                             THEN Ndfs(IrradiationPoints(rates.x).normerrsq)
                                             ELSE {0} } :
                           rates \in {TransmissionRates(ex[idx])} } :
       /\ ex' = [ex EXCEPT ![idx] = r.x]
       /\ err' = r.err
       /\ pc' = IF r.err = "" THEN "Transmission" ELSE "raised"
       /\ idx' = IF r.err = "" THEN idx + 1 ELSE idx
  /\ UNCHANGED <<infile, calls, pos, ret, call, result>>

\* ------------------------------------------------------------ Normalize
Sign(n) == IF n < 0 THEN -1 ELSE IF n > 0 THEN 1 ELSE 0

\* the real number math.sqrt(radicand) * factor, as <<its sign, its square>>
SqrtTimes(radicand, factor) ==
  IF radicand = Zero \/ factor = Zero THEN <<0, Zero>>
  ELSE <<Sign(factor[1]), RMul(radicand, RSq(factor))>>

\* next((ex for ex in experiments if ex['TCN'].startswith(tcn)), None): the index
\* of the first experiment whose identifier starts with tcn, 0 for None
Find(experiments, tcn) ==
  LET hits == { e \in 1..Len(experiments) : StartsWith(experiments[e].TCN, tcn) }
  IN  IF hits = {} THEN 0 ELSE CHOOSE e \in hits : \A h \in hits : e <= h

\* (a_err/a)^2 + (b_err/b)^2 of lines 327 and 331
RelativeSq(a, aerr, b, berr) == RAdd(RSq(RDiv(aerr, a)), RSq(RDiv(berr, b)))

\* the factor line 331 multiplies the relative error of transmission2 with
Error2Factor(transmission, transmission2) == transmission

\* Normalize(experiments, transtcn, reftcn) (lines 319-355): what it returns and
\* the error it raises ("" for none)
Normalize(experiments, transtcn, reftcn) ==
  LET t == Find(experiments, transtcn)
      r == Find(experiments, reftcn)
      trans == experiments[t]
      ref == experiments[r]
      transmission == RDiv(trans.transmission, ref.transmission)
      transmissionerr ==
        SqrtTimes(RelativeSq(trans.transmission, trans.transmissionerr,
                             ref.transmission, ref.transmissionerr), transmission)
      transmission2 == RDiv(trans.transmission2, ref.transmission2)
      transmission2err ==
        SqrtTimes(RelativeSq(trans.transmission2, trans.transmission2err,
                             ref.transmission2, ref.transmission2err),
                  Error2Factor(transmission, transmission2))
      Raise(e) == [ret |-> <<>>, err |-> e]
  IN  IF t = 0 \/ r = 0 THEN [ret |-> <<Zero, Zero>>, err |-> ""]
      ELSE IF "transmission" \notin trans.keys \/ "transmission" \notin ref.keys
           THEN Raise("KeyError")
      ELSE IF ref.transmission = Zero THEN Raise("ZeroDivisionError")
      ELSE IF "transmissionerr" \notin trans.keys THEN Raise("KeyError")
      ELSE IF trans.transmission = Zero THEN Raise("ZeroDivisionError")
      ELSE IF "transmissionerr" \notin ref.keys THEN Raise("KeyError")
      ELSE IF "transmission2" \notin trans.keys \/ "transmission2" \notin ref.keys
           THEN Raise("KeyError")
      ELSE IF ref.transmission2 = Zero THEN Raise("ZeroDivisionError")
      ELSE IF "transmission2err" \notin trans.keys THEN Raise("KeyError")
      ELSE IF trans.transmission2 = Zero THEN Raise("ZeroDivisionError")
      ELSE IF "transmission2err" \notin ref.keys THEN Raise("KeyError")
      ELSE IF \E k \in {"Li6rate_normalized", "Li6rate_normalized2"} :
                k \notin trans.keys \/ k \notin ref.keys
           THEN Raise("KeyError")
      ELSE [ret |-> <<transmission, transmissionerr, transmission2, transmission2err>>,
            err |-> ""]

\* ------------------------------------------------------------ main program
\* Normalize calls as the main program makes them (lines 420-466), on the
\* identifiers of the table above, one of them of no experiment.  A call of the SCM
\* loop (scm) is made only when an experiment starts with the target identifier
\* (lines 457-459) and unpacks four values from what Normalize returns (line 460).
Programs ==
  { << [trans |-> T18215, ref |-> T18065, scm |-> FALSE],
       [trans |-> T18065 \o A25, ref |-> T18065, scm |-> FALSE],
       [trans |-> T18065 \o A0, ref |-> T18065 \o A0, scm |-> TRUE],
       [trans |-> T18065 \o A25, ref |-> T18065 \o A0, scm |-> TRUE],
       [trans |-> T18265 \o A0, ref |-> T18265 \o A0, scm |-> TRUE] >>,
    << [trans |-> T18065 \o A25, ref |-> T18065 \o A0, scm |-> TRUE],
       [trans |-> T18265 \o A25, ref |-> T18265 \o A0, scm |-> TRUE],
       [trans |-> T18265, ref |-> T18065, scm |-> FALSE] >> }

\* the loop over the experiments is over (lines 414-420): PrintBackground and
\* PrintMonitorCounts plot what the experiments hold and change none of it, the
\* Normalize calls of the program follow
TransmissionEnd ==
  /\ pc = "Transmission"
  /\ idx = NEx + 1
  /\ pc' = "Normalize"
  /\ idx' = 1
  /\ calls' \in Programs
  /\ UNCHANGED <<infile, pos, ex, ret, err, call, result>>

\* one Normalize call of the main program
NormalizeStep ==
  /\ pc = "Normalize"
  /\ idx <= Len(calls)
  /\ LET c == calls[idx]
         r == Normalize(ex, c.trans, c.ref)
     IN  IF c.scm /\ Find(ex, c.trans) = 0
         THEN /\ idx' = idx + 1
              /\ UNCHANGED <<ret, err, pc>>
         ELSE IF r.err /= ""
         THEN /\ err' = r.err
              /\ pc' = "raised"
              /\ UNCHANGED <<ret, idx>>
         ELSE IF c.scm /\ Len(r.ret) /= 4
         THEN /\ ret' = r.ret
              /\ err' = "ValueError"
              /\ pc' = "raised"
              /\ UNCHANGED idx
         ELSE /\ ret' = r.ret
              /\ idx' = idx + 1
              /\ UNCHANGED <<err, pc>>
  /\ UNCHANGED <<infile, calls, pos, ex, call, result>>

\* the main program has made its last call
Finish ==
  /\ pc = "Normalize"
  /\ idx = Len(calls) + 1
  /\ pc' = "done"
  /\ UNCHANGED <<infile, calls, pos, ex, idx, ret, err, call, result>>

NoCall == [counts |-> <<>>, countdurations |-> <<>>, bg |-> <<Zero, Zero>>,
           normalization |-> <<>>, normalizationerrsq |-> <<>>]
NoResult == [raised |-> FALSE, norm |-> <<>>, normerrsq |-> <<>>]

Init ==
  /\ infile \in Streams
  /\ calls = <<>>
  /\ pos = 0
  /\ ex = [e \in 1..NEx |-> NewExperiment(Experiments[e])]
  /\ pc = "start"
  /\ idx = 0
  /\ ret = <<>>
  /\ err = ""
  /\ call = NoCall
  /\ result = NoResult

Next ==
  \/ ReadCyclesBegin
  \/ ReadCycle
  \/ ReadCyclesEnd
  \/ TransmissionStep
  \/ TransmissionEnd
  \/ NormalizeStep
  \/ Finish

Spec == Init /\ [][Next]_vars

\* ------------------------------------------------------------ calls of UCN.py
\* The functions of UCN.py applied to argument lists of their own: one call of
\* SubtractBackgroundAndNormalize or SubtractBackgroundAndNormalizeRate.

\* one element of the argument lists: count, duration, normalization and the
\* square of its error
Elements ==
  { [c |-> c, cd |-> cd, m |-> m, dmsq |-> dmsq] :
      c \in {I(-1), Zero, I(3)}, cd \in {Zero, I(10)},
      m \in {Zero, I(2), I(-2)}, dmsq \in {Zero, One} }

\* DetectorBackground[detector] of a call: the table of UCN.py, or (5.0, 0.0)
Backgrounds == { DetectorBackground.li6, <<I(5), Zero>> }

CallOf(elements, bg) ==
  [ counts |-> [i \in 1..Len(elements) |-> elements[i].c],
    countdurations |-> [i \in 1..Len(elements) |-> elements[i].cd],
    bg |-> bg,
    normalization |-> [i \in 1..Len(elements) |-> elements[i].m],
    normalizationerrsq |-> [i \in 1..Len(elements) |-> elements[i].dmsq] ]

\* three cycles with counts 50, 60, 55 in 10 s each, monitor counts 500 with
\* errors sqrt(500), detector background (5.0, 0.0)
FixtureCall ==
  [ counts |-> <<I(50), I(60), I(55)>>,
    countdurations |-> <<I(10), I(10), I(10)>>,
    bg |-> <<I(5), Zero>>,
    normalization |-> <<I(500), I(500), I(500)>>,
    normalizationerrsq |-> <<I(500), I(500), I(500)>> ]

UCNCalls ==
  { CallOf(es, bg) : es \in SeqsUpTo(Elements, MaxLen) \ {<<>>}, bg \in Backgrounds }
  \cup {FixtureCall}

CallSubtractBackgroundAndNormalize ==
  /\ pc = "call"
  /\ result' = SubtractBackgroundAndNormalize(call.counts, call.countdurations, call.bg,
                                              call.normalization, call.normalizationerrsq)
  /\ pc' = "SubtractBackgroundAndNormalize"
  /\ err' = IF result'.raised THEN "ZeroDivisionError" ELSE ""
  /\ UNCHANGED <<infile, calls, pos, ex, idx, ret, call>>

CallSubtractBackgroundAndNormalizeRate ==
  /\ pc = "call"
  /\ result' = SubtractBackgroundAndNormalizeRate(call.counts, call.countdurations, call.bg,
                                                  call.normalization, call.normalizationerrsq)
  /\ pc' = "SubtractBackgroundAndNormalizeRate"
  /\ err' = IF result'.raised THEN "ZeroDivisionError" ELSE ""
  /\ UNCHANGED <<infile, calls, pos, ex, idx, ret, call>>

InitUCN ==
  /\ infile = <<>>
  /\ calls = <<>>
  /\ pos = 0
  /\ ex = <<>>
  /\ pc = "call"
  /\ idx = 0
  /\ ret = <<>>
  /\ err = ""
  /\ call \in UCNCalls
  /\ result = NoResult

NextUCN ==
  \/ CallSubtractBackgroundAndNormalize
  \/ CallSubtractBackgroundAndNormalizeRate

SpecUCN == InitUCN /\ [][NextUCN]_vars

\* ------------------------------------------------------------ helium
\* UCN.HeVaporPressure and UCN.HeTemperature applied to a number of their own.
\* The pressure exp(lnP) is no fraction: a returned pressure is kept as the
\* term <<"HeVaporPressure", T>>.

\* the temperatures tried: hundredths of a kelvin from -1 K up to this many
MaxCentiKelvin == 700

Temperatures == { R(k, 100) : k \in (-100)..MaxCentiKelvin }
Pressures == { I(-1), Zero, R(1, 1000), R(1, 2), I(1), I(760), I(5000) }

\* the test of line 13 letting every T above 0.66 through
HeVaporPressureNoCeiling(T) ==
  IF ~RLe(R(66, 100), T)
  THEN [raised |-> TRUE, err |-> "Exception", value |-> <<>>]
  ELSE IF ~RLt(Zero, T)
  THEN [raised |-> TRUE, err |-> "ValueError", value |-> <<>>]
  ELSE [raised |-> FALSE, err |-> "", value |-> <<"HeVaporPressure", T>>]

\* UCN.HeVaporPressure (UCN.py lines 10-23): the test of line 13 raises
\* Exception; past it, math.log(T) and the divisions by T of line 22 raise for
\* T <= 0, and math.exp returns the pressure
HeVaporPressure(T) ==
  IF ~(RLe(R(66, 100), T) /\ RLe(T, R(52, 10)))
  THEN [raised |-> TRUE, err |-> "Exception", value |-> <<>>]
  ELSE IF ~RLt(Zero, T)
  THEN [raised |-> TRUE, err |-> "ValueError", value |-> <<>>]
  ELSE [raised |-> FALSE, err |-> "", value |-> <<"HeVaporPressure", T>>]

\* what scipy.optimize.brentq(lambda T: HeVaporPressure(T) - P, 0.66, 5.2) may
\* do (line 30): the pressures are positive, so for P < 0 the function has one
\* sign at both ends and brentq raises ValueError; for P > 0 it raises that
\* error or returns a temperature of the bracket, whichever the pressures at
\* its ends decide
brentq(P) ==
  { [raised |-> TRUE, err |-> "ValueError", value |-> <<>>, brentq |-> TRUE] }
  \cup IF RLt(Zero, P)
       THEN { [raised |-> FALSE, err |-> "", value |-> T, brentq |-> TRUE] :
                T \in { t \in {R(66, 100), I(2), R(52, 10)} : ~HeVaporPressure(t).raised } }
       ELSE {}

\* UCN.HeTemperature (UCN.py lines 27-30): the results it may have
HeTemperature(P) ==
  IF P = Zero
  THEN { [raised |-> FALSE, err |-> "", value |-> Zero, brentq |-> FALSE] }
  ELSE brentq(P)

CallHeVaporPressure ==
  /\ pc = "callT"
  /\ result' = HeVaporPressure(call.T)
  /\ pc' = "HeVaporPressure"
  /\ err' = result'.err
  /\ UNCHANGED <<infile, calls, pos, ex, idx, ret, call>>

CallHeTemperature ==
  /\ pc = "callP"
  /\ result' \in HeTemperature(call.P)
  /\ pc' = "HeTemperature"
  /\ err' = result'.err
  /\ UNCHANGED <<infile, calls, pos, ex, idx, ret, call>>

InitHe ==
  /\ infile = <<>>
  /\ calls = <<>>
  /\ pos = 0
  /\ ex = <<>>
  /\ idx = 0
  /\ ret = <<>>
  /\ err = ""
  /\ result = NoResult
  /\ \/ pc = "callT" /\ call \in { [T |-> t] : t \in Temperatures }
     \/ pc = "callP" /\ call \in { [P |-> q] : q \in Pressures }

NextHe ==
  \/ CallHeVaporPressure
  \/ CallHeTemperature

SpecHe == InitHe /\ [][NextHe]_vars

\* ============================================================ claims
\* the cycles ReadCycles has consumed
Consumed == SubSeq(infile, 1, pos)

\* the cycles among s that passed every filter and whose run experiment e uses
AcceptedFor(s, e) ==
  LET Keep(c) == Filter(c) = "accept" /\ InRuns(c.runnumber, Experiments[e].runs)
  IN  SelectSeq(s, Keep)

\* ReadCycles is in its loop over the cycles, or has just returned
C_Reading == pc = "ReadCycles" \/ (pc = "Transmission" /\ idx = 1)

\* ------------------------------------------------------------ C1
\* the seven conditions the claim lists, stated on the fields of the cycle
C1_Listed(c) ==
  LET beam == c.B1V_KSM_PREDCUR
      n == Len(beam)
      sum == RSum(beam)
      sumsq == RSum([i \in 1..n |-> RMul(beam[i], beam[i])])
      \* variance = sumsq/n - (sum/n)^2
      variance == RSub(RDiv(sumsq, I(n)), RMul(RDiv(sum, I(n)), RDiv(sum, I(n))))
  IN  \/ \E i \in 1..n : RLt(beam[i], R(1, 10))
      \/ RLt(R(2 * 2, 100 * 100), variance)
      \/ c.countsLi6[10] = 0
      \/ ~(\E i \in 1..Len(c.UCN_UGD_IV1_STATON) : c.UCN_UGD_IV1_STATON[i] >= 1)
      \/ RLt(I(c.countsLi6[1]), RMul(I(10), c.durations[1]))
      \/ RLt(RMul(I(10), c.durations[10]), I(c.countsLi6[10]))
      \/ c.countsHe3[1] < 300

\* a vacuum-gauge reading strictly between 1e-7 and 1e-2
C1_GaugeOn(c) ==
  \E i \in 1..Len(c.UCN_EXP_IG5_RDVAC) :
    /\ RLt(R(1, 10000000), c.UCN_EXP_IG5_RDVAC[i])
    /\ RLt(c.UCN_EXP_IG5_RDVAC[i], R(1, 100))

\* the step of ReadCycles over the next cycle appended it to some accumulator
C1_Appended == \E e \in 1..NEx : Len(ex'[e].start) = Len(ex[e].start) + 1

\* C1 as claimed: a cycle whose run some experiment uses is appended to
\* accumulators if and only if none of the seven listed conditions holds, and
\* with any of them holding no accumulator changes.
C1_SevenConditions ==
  [][ (pc = "ReadCycles" /\ pos' = pos + 1
       /\ RunIsUsed(infile[pos + 1].runnumber, Experiments))
      => /\ C1_Appended <=> ~C1_Listed(infile[pos + 1])
         /\ C1_Listed(infile[pos + 1]) => ex' = ex ]_vars

\* C1 as amended: a cycle whose run some experiment uses is appended to
\* accumulators if and only if none of the seven listed conditions holds and no
\* vacuum-gauge (IG5) reading lies strictly between 1e-7 and 1e-2; with any of
\* the eight holding no accumulator changes and ReadCycles goes on to the next
\* cycle.
C1_EightConditions ==
  [][ (pc = "ReadCycles" /\ pos' = pos + 1
       /\ RunIsUsed(infile[pos + 1].runnumber, Experiments))
      => LET c == infile[pos + 1]
         IN  /\ C1_Appended <=> ~(C1_Listed(c) \/ C1_GaugeOn(c))
             /\ (C1_Listed(c) \/ C1_GaugeOn(c)) => (ex' = ex /\ pc' = "ReadCycles") ]_vars

\* ReadCycles has skipped a cycle that only the vacuum gauge rejects
C1_Witness ==
  /\ pos = 1
  /\ ~C1_Listed(infile[1])
  /\ C1_GaugeOn(infile[1])
  /\ RunIsUsed(infile[1].runnumber, Experiments)
  /\ \A e \in 1..NEx : ex[e].start = <<>>

\* ------------------------------------------------------------ C2
\* C2: while ReadCycles reads the stream and when it has returned, the start
\* times and cycle numbers recorded for every experiment are those of the
\* consumed cycles that passed all filters and whose run the experiment uses, in
\* stream order: a
\* cycle of a run two experiments use has one entry in each of them, and none
\* in an experiment that does not use its run.
C2_EntriesInOrder ==
  C_Reading =>
    \A e \in 1..NEx :
      LET acc == AcceptedFor(Consumed, e)
      IN  /\ ex[e].start = [i \in 1..Len(acc) |-> acc[i].start]
          /\ ex[e].cyclenumber = [i \in 1..Len(acc) |-> acc[i].cyclenumber]

\* the whole stream is read: a cycle of run 1054 is entered in experiments 2 and
\* 3 and not in 1, experiment 3 holds a second cycle after it, and a cycle of
\* the stream was entered nowhere
C2_Witness ==
  /\ pc = "Transmission"
  /\ pos = Len(infile)
  /\ Len(ex[2].start) = 1
  /\ Len(ex[3].start) = 2
  /\ ex[3].start[1] = ex[2].start[1]
  /\ ex[3].start[2] /= ex[3].start[1]
  /\ ex[1].start = <<>>
  /\ Len(infile) = 3

\* ------------------------------------------------------------ C3
\* the lists ReadCycles initialises and never appends to
C3_NeverFilled == {"he3background", "he3irradiation", "productionrate", "productionrateerr"}

\* C3 as claimed: after any prefix of the stream, every list ReadCycles
\* initialises on an accumulator has as many entries as cycles were accepted
\* for the experiment.
C3_AllListsEqual ==
  C_Reading =>
    \A e \in 1..NEx :
      LET accepted == Len(AcceptedFor(Consumed, e))
      IN  \A k \in InitialisedLists : Len(ex[e][k]) = accepted

\* C3 as amended: after any prefix of the stream, every list ReadCycles
\* initialises on an accumulator, except
\* he3background, he3irradiation, productionrate and productionrateerr, has as
\* many entries as cycles were accepted for the experiment; those four are never
\* appended to and stay empty.
C3_FilledListsEqual ==
  C_Reading =>
    \A e \in 1..NEx :
      LET accepted == Len(AcceptedFor(Consumed, e))
      IN  /\ \A k \in InitialisedLists \ C3_NeverFilled : Len(ex[e][k]) = accepted
          /\ \A k \in C3_NeverFilled : ex[e][k] = <<>>

\* two cycles were accepted for experiment 3 and none for experiment 1
C3_Witness ==
  /\ pc = "ReadCycles"
  /\ Len(ex[3].start) = 2
  /\ Len(ex[3].li6window) = 2
  /\ Len(ex[1].start) = 0
  /\ pos = 3

\* ------------------------------------------------------------ C4
\* the Normalize call the main program is about to make names a target or a
\* reference that no experiment identifier starts with
C4_Miss ==
  /\ pc = "Normalize"
  /\ idx <= Len(calls)
  /\ ~(calls[idx].scm /\ Find(ex, calls[idx].trans) = 0)
  /\ (Find(ex, calls[idx].trans) = 0 \/ Find(ex, calls[idx].ref) = 0)

\* C4: a Normalize call whose target or reference identifier no experiment
\* starts with returns (0.0, 0.0, 0.0, 0.0) and raises nothing, so that the main
\* program, also where it unpacks four values, goes on to its next call.
C4_MissReturnsFourZeros ==
  [][NormalizeStep /\ C4_Miss =>
       ret' = <<Zero, Zero, Zero, Zero>> /\ pc' = "Normalize" /\ idx' = idx + 1]_vars

\* ------------------------------------------------------------ C5
\* the Normalize call the main program is about to make finds both experiments
C5_BothFound ==
  /\ pc = "Normalize"
  /\ idx <= Len(calls)
  /\ Find(ex, calls[idx].trans) /= 0
  /\ Find(ex, calls[idx].ref) /= 0

\* C5: a Normalize call that finds both experiments and returns, returns
\* ratio = target.transmission / reference.transmission, ratio times the
\* quadrature sum of the two relative errors, and the same two values computed
\* from transmission2 and transmission2err with ratio2 as the factor.
C5_RatiosAndErrors ==
  [][NormalizeStep /\ C5_BothFound /\ pc' = "Normalize" =>
       LET trans == ex[Find(ex, calls[idx].trans)]
           ref == ex[Find(ex, calls[idx].ref)]
           ratio == RDiv(trans.transmission, ref.transmission)
           ratio2 == RDiv(trans.transmission2, ref.transmission2)
       IN  ret' = << ratio,
                     SqrtTimes(RelativeSq(trans.transmission, trans.transmissionerr,
                                          ref.transmission, ref.transmissionerr), ratio),
                     ratio2,
                     SqrtTimes(RelativeSq(trans.transmission2, trans.transmission2err,
                                          ref.transmission2, ref.transmission2err), ratio2) >>]_vars

\* ------------------------------------------------------------ C6
\* some accepted cycle of the experiment has no He3 count in the fixed window
C6_ZeroSecondary(x) == \E i \in 1..Len(x.monitorcounts2) : x.monitorcounts2[i] = 0

\* C6: for an experiment with an accepted cycle whose monitorcounts2 is 0,
\* Transmission (past its first fit) stores transmission and transmissionerr,
\* leaves transmission2 out and raises nothing; and a later Normalize call on
\* two experiments that both went through the first fit, one of them such an
\* experiment, raises nothing and returns the counting-window ratio and error.
C6_SkippedWithoutError ==
  [][/\ (TransmissionStep /\ Len(ex[idx].start) >= 2 /\ C6_ZeroSecondary(ex[idx]) =>
           /\ pc' = "Transmission"
           /\ "transmissionerr" \in ex'[idx].keys
           /\ "transmission2" \notin ex'[idx].keys)
     /\ (NormalizeStep /\ C5_BothFound =>
           LET trans == ex[Find(ex, calls[idx].trans)]
               ref == ex[Find(ex, calls[idx].ref)]
               ratio == RDiv(trans.transmission, ref.transmission)
           IN  /\ "transmissionerr" \in trans.keys
               /\ "transmissionerr" \in ref.keys
               /\ (C6_ZeroSecondary(trans) \/ C6_ZeroSecondary(ref))
               => /\ pc' = "Normalize"
                  /\ Len(ret') >= 2
                  /\ ret'[1] = ratio
                  /\ ret'[2] = SqrtTimes(RelativeSq(trans.transmission, trans.transmissionerr,
                                                    ref.transmission, ref.transmissionerr),
                                         ratio))]_vars

\* ------------------------------------------------------------ C7
\* C7: whatever the cycle stream, no call of the batch (ReadCycles, Transmission
\* of every experiment, every Normalize call) ends in an unhandled error, also
\* when an experiment has no accepted cycle or exactly one.
C7_BatchCompletes == pc /= "raised"

\* ------------------------------------------------------------ C8
\* the error e is the error of fit f, multiplied by chi2/ndf where that is above 1
C8_Scaled(e, f, ndf) ==
  LET reduced == RDiv(f.chi2, I(ndf))
  IN  e = (IF RLt(One, reduced) THEN RMul(f.e, reduced) ELSE f.e)

\* C8: Transmission of an experiment with at least one accepted cycle stores
\* as transmissionerr the error of the constant fit, multiplied by chi2/ndf when
\* chi2/ndf > 1 and as it is when chi2/ndf <= 1; and likewise transmission2err
\* whenever it stores transmission2.
C8_ErrorScaledByReducedChi2 ==
  [][TransmissionStep /\ Len(ex[idx].start) >= 1 =>
       LET x == ex'[idx]
       IN  /\ "transmission" \in x.keys
           /\ "transmissionerr" \in x.keys
           /\ \E f \in FitResults, ndf \in Ndfs(CountingPoints(ex[idx]).normerrsq) \ {0} :
                f.p = x.transmission /\ C8_Scaled(x.transmissionerr, f, ndf)
           /\ ("transmission2" \in x.keys =>
                 /\ "transmission2err" \in x.keys
                 /\ \E f \in FitResults,
                       ndf \in Ndfs(IrradiationPoints(ex[idx]).normerrsq) \ {0} :
                      f.p = x.transmission2 /\ C8_Scaled(x.transmission2err, f, ndf))]_vars

\* ------------------------------------------------------------ C9
\* (the lists of a call have one length)
\* C9 as claimed: SubtractBackgroundAndNormalize returns the value 0 and the
\* error 0 for every element whose count is <= 0, whatever the duration, the
\* detector background, the normalization and its error, and the other elements.
C9_ZeroForNonPositiveCount ==
  pc = "SubtractBackgroundAndNormalize" =>
    \A i \in 1..Len(call.counts) :
      RLe(call.counts[i], Zero) =>
        /\ ~result.raised
        /\ i <= Len(result.norm) /\ result.norm[i] = Zero
        /\ i <= Len(result.normerrsq) /\ result.normerrsq[i] = Zero

\* C9 as amended: SubtractBackgroundAndNormalize raises ZeroDivisionError
\* exactly when some normalization value of the call is 0; otherwise it returns
\* the value 0 and the error 0 for every element whose count is <= 0, whatever
\* the duration, the detector background, the normalization error and the other
\* elements.
C9_ZeroUnlessNormalizationZero ==
  pc = "SubtractBackgroundAndNormalize" =>
    /\ result.raised <=> \E i \in 1..Len(call.normalization) : call.normalization[i] = Zero
    /\ ~result.raised =>
         /\ Len(result.norm) = Len(call.counts)
         /\ Len(result.normerrsq) = Len(call.counts)
         /\ \A i \in 1..Len(call.counts) :
              RLe(call.counts[i], Zero) =>
                result.norm[i] = Zero /\ result.normerrsq[i] = Zero

\* a call has returned whose first element has a negative count, a duration, a
\* negative normalization with an error, beside an element that counts
C9_Witness ==
  /\ pc = "SubtractBackgroundAndNormalize"
  /\ ~result.raised
  /\ Len(call.counts) = 2
  /\ call.counts[1] = I(-1)
  /\ call.countdurations[1] = I(10)
  /\ call.normalization[1] = I(-2)
  /\ call.normalizationerrsq[1] = One
  /\ call.counts[2] = I(3)
  /\ result.norm[2] /= Zero
  /\ result.norm[1] = Zero

\* ------------------------------------------------------------ C10
\* C10 as claimed: SubtractBackgroundAndNormalizeRate on counts [50, 60, 55],
\* durations [10, 10, 10], normalization [500, 500, 500] and the detector
\* background (5.0, 0.0) returns the rates [0, 0.1, 0.05].
C10_FixtureRates ==
  pc = "SubtractBackgroundAndNormalizeRate" /\ call = FixtureCall =>
    ~result.raised /\ result.norm = <<Zero, R(1, 10), R(1, 20)>>

\* C10 as amended: on that call SubtractBackgroundAndNormalizeRate returns the
\* rates [0, 0.002, 0.001]; and on every call that returns, the rate of an
\* element with a count above 0 is (count - rate x duration) divided by the
\* normalization and then by the duration, and 0 for a count <= 0.
C10_FixtureRatesOfCode ==
  pc = "SubtractBackgroundAndNormalizeRate" =>
    /\ call = FixtureCall =>
         ~result.raised /\ result.norm = <<Zero, R(1, 500), R(1, 1000)>>
    /\ ~result.raised =>
         /\ Len(result.norm) = Len(call.counts)
         /\ \A i \in 1..Len(call.counts) :
              result.norm[i] =
                IF RLt(Zero, call.counts[i])
                THEN RDiv(RDiv(RSub(call.counts[i],
                                    RMul(call.bg[1], call.countdurations[i])),
                               call.normalization[i]),
                          call.countdurations[i])
                ELSE Zero

\* the call on the three cycles has returned its rates
C10_Witness ==
  /\ pc = "SubtractBackgroundAndNormalizeRate"
  /\ call = FixtureCall
  /\ ~result.raised
  /\ Len(result.norm) = 3
  /\ result.norm[2] /= Zero

\* ------------------------------------------------------------ C11
\* C11: HeVaporPressure(T) raises an error and returns nothing for every T
\* outside [0.66, 5.2] and returns a value without error for every T inside,
\* both ends included; HeTemperature(0) returns exactly 0 and does not call
\* the root-finder.
C11_VaporPressureDomain ==
  /\ pc = "HeVaporPressure" =>
       IF RLe(R(66, 100), call.T) /\ RLe(call.T, R(52, 10))
       THEN ~result.raised /\ err = "" /\ result.value /= <<>>
       ELSE result.raised /\ err /= "" /\ result.value = <<>>
  /\ pc = "HeTemperature" =>
       (call.P = Zero =>
          ~result.raised /\ err = "" /\ result.value = Zero /\ ~result.brentq)

\* HeVaporPressure has returned a pressure for the lower end of the range
C11_Witness ==
  /\ pc = "HeVaporPressure"
  /\ call.T = R(66, 100)
  /\ ~result.raised
  /\ result.value = <<"HeVaporPressure", R(66, 100)>>

\* ------------------------------------------------------------ C12
\* a vacuum-gauge reading exactly equal to 1e-7 or to 1e-2
C12_AtEnd(c) ==
  \E i \in 1..Len(c.UCN_EXP_IG5_RDVAC) :
    c.UCN_EXP_IG5_RDVAC[i] \in {R(1, 10000000), R(1, 100)}

\* C12 as claimed: the rejection band is closed, a cycle with a vacuum-gauge
\* (IG5) reading exactly equal to 1e-7 or to 1e-2 is rejected by ReadCycles like
\* one with a reading strictly between the two: no accumulator changes.
C12_ClosedBand ==
  [][ (pc = "ReadCycles" /\ pos' = pos + 1
       /\ RunIsUsed(infile[pos + 1].runnumber, Experiments))
      => ((C1_GaugeOn(infile[pos + 1]) \/ C12_AtEnd(infile[pos + 1])) => ex' = ex) ]_vars

\* C12 as amended: the rejection band is the open interval (1e-7, 1e-2): a
\* cycle with a reading strictly between the two is rejected, and a cycle whose
\* readings reach the band only at 1e-7 or 1e-2 exactly is not rejected for the
\* gauge: with no other condition of rejection holding it is appended.
C12_OpenBand ==
  [][ (pc = "ReadCycles" /\ pos' = pos + 1
       /\ RunIsUsed(infile[pos + 1].runnumber, Experiments))
      => LET c == infile[pos + 1]
         IN  /\ C1_GaugeOn(c) => ex' = ex
             /\ (C12_AtEnd(c) /\ ~C1_GaugeOn(c) /\ ~C1_Listed(c)) => C1_Appended ]_vars

\* ReadCycles has appended a cycle whose gauge read exactly 1e-7
C12_Witness ==
  /\ pos = 1
  /\ infile[1].UCN_EXP_IG5_RDVAC = <<R(1, 10000000)>>
  /\ \E e \in 1..NEx : ex[e].start = <<infile[1].start>>

\* ------------------------------------------------------------ C13
\* two histograms with the same bin count, contents and errors
C13_SameHistogram(h, g) ==
  \/ h = g
  \/ /\ h.nbins = g.nbins
     /\ \A b \in 0..(h.nbins + 1) :
          /\ RetrieveBinContent(Weighted(h), b) = RetrieveBinContent(Weighted(g), b)
          /\ GetBinErrorSqUnchecked(Weighted(h), b) = GetBinErrorSqUnchecked(Weighted(g), b)

\* C13: Transmission(ex) only adds derived results: every per-cycle sequence
\* that ReadCycles wrote, each per-cycle Li6 and He3 rate histogram with its bin
\* count, contents and errors included, is after the call what it was before.
C13_PerCycleSequencesKept ==
  [][ (pc = "Transmission" /\ idx <= NEx /\ pc' \in {"Transmission", "raised"})
      => /\ \A k \in InitialisedLists \ {"Li6rate", "He3rate"} : ex'[idx][k] = ex[idx][k]
         /\ \A k \in {"Li6rate", "He3rate"} :
              /\ Len(ex'[idx][k]) = Len(ex[idx][k])
              /\ \A i \in 1..Len(ex[idx][k]) :
                   C13_SameHistogram(ex'[idx][k][i], ex[idx][k][i]) ]_vars

\* ------------------------------------------------------------ C14
\* the secondary windows recorded for entry i of accumulator x are those the
\* claim gives for cycle c
C14_Windows(x, i, c) ==
  LET h == x.Li6rate[i]
      d0 == c.durations[monitorperiod]
  IN  /\ \E b \in 1..h.nbins :
           /\ GetBinContent(h, b) > 10
           /\ \A a \in DOMAIN h.bins : (a >= 1 /\ a < b) => GetBinContent(h, a) <= 10
           /\ x.li6window[i] = << RSub(GetBinLowEdge(h, b), I(60)),
                                  RSub(GetBinLowEdge(h, b), I(50)) >>
           /\ x.li6counts2[i] =
                CountBetween(c.Li6hits,
                             RAdd(d0, RSub(GetBinLowEdge(h, b), I(60))),
                             RAdd(d0, RSub(GetBinLowEdge(h, b), I(50))))
      /\ x.countduration2[i] = I(10)
      /\ x.monitorcounts2[i] = CountBetween(c.He3hits, RSub(d0, I(10)), d0)
      /\ x.monitorduration2[i] = I(10)

\* C14: for every accepted cycle appended to an experiment the recorded
\* secondary Li6 window is (e - 60, e - 50), e the start of the first bin of
\* the cycle's Li6 rate histogram holding more than 10; countduration2 is 10,
\* li6counts2 counts the Li6 hits t with d0 + e - 60 < t < d0 + e - 50, the He3
\* window is (-10, 0) relative to d0 and monitorduration2 is 10.
C14_SecondaryWindows ==
  C_Reading =>
    \A e \in 1..NEx :
      \A i \in 1..Len(ex[e].start) :
        C14_Windows(ex[e], i, AcceptedFor(Consumed, e)[i])

\* ------------------------------------------------------------ C15
\* bins 1 to nbins of h, the last included, all hold content c with squared
\* error w2
C15_Flat(h, c, w2) ==
  \A b \in 1..h.nbins :
    RetrieveBinContent(h, b) = c /\ GetBinErrorSqUnchecked(h, b) = w2

\* every bin of li6copy holds the counts of its four bins of the cycle's Li6
\* histogram h less four times the background of a bin, divided by m
C15_Normalized(copy, h, background, m) ==
  \A b \in 1..(h.nbins \div 4) :
    copy.c[b] =
      RDiv(RSub(I(GetBinContent(h, 4 * b - 3) + GetBinContent(h, 4 * b - 2)
                  + GetBinContent(h, 4 * b - 1) + GetBinContent(h, 4 * b)),
                RMul(I(4), background)),
           I(m))

\* C15: in Transmission the flat Li6 background histogram and each per-cycle
\* flat-normalization histogram are flat over the whole axis: every bin from 1
\* to N, the last included, holds background rate x bin width with its
\* uncertainty, respectively the monitor count m with error sqrt(m), so that
\* every bin of a per-cycle Li6 histogram has the background subtracted and is
\* divided by m.  Stated where Transmission is about to work on an experiment
\* with accepted cycles.
C15_FlatHistograms ==
  (pc = "Transmission" /\ idx <= NEx /\ Len(ex[idx].start) > 0) =>
    LET x == ex[idx]
        width == GetBinWidth(x.Li6rate[1])
        background == RMul(DetectorBackground.li6[1], width)
    IN  /\ C15_Flat(li6background(x), background,
                    RSq(RMul(DetectorBackground.li6[2], width)))
        /\ \A i \in 1..Len(x.start) :
             /\ C15_Flat(normhist(x, x.monitorcounts[i]),
                         I(x.monitorcounts[i]), I(x.monitorcounts[i]))
             /\ C15_Normalized(li6copy(x, i, x.monitorcounts[i]), x.Li6rate[i],
                               background, x.monitorcounts[i])

\* ------------------------------------------------------------ C16
\* entry i of accumulator x is within the limits of the filters
C16_Entry(x, i) ==
  /\ x.monitorcounts[i] >= 300
  /\ RLe(RMul(I(10), x.countduration[i]), I(x.li6counts[i]))
  /\ 0 < x.li6background[i]
  /\ RLe(I(x.li6background[i]), RMul(I(10), x.backgroundduration[i]))
  /\ RLt(Zero, x.backgroundduration[i])
  /\ \A k \in 1..Len(x.beamcurrent[i]) : RLe(R(1, 10), x.beamcurrent[i][k])

\* C16: with detector counts that are not negative, every cycle entry of every
\* accumulator has monitorcounts >= 300, li6counts >= 10 x countduration,
\* 0 < li6background <= 10 x backgroundduration, hence backgroundduration > 0,
\* and every beam-current sample >= 0.1; so for every experiment with an
\* accepted cycle the sum of the background durations, every monitor count and
\* every mean beam current, the divisors of Transmission, are above 0.
C16_EntriesWithinLimits ==
  \A e \in 1..NEx :
    /\ \A i \in 1..Len(ex[e].start) :
         /\ C16_Entry(ex[e], i)
         /\ ex[e].monitorcounts[i] > 0
         /\ RLt(Zero, Mean(ex[e].beamcurrent[i]))
    /\ Len(ex[e].start) > 0 => RLt(Zero, RSum(ex[e].backgroundduration))

\* an accumulator holds an entry at the limits: 300 monitor counts, 10 Li6
\* counts per second of counting and of background, a beam current of 0.1
C16_Witness ==
  \E e \in 1..NEx :
    \E i \in 1..Len(ex[e].start) :
      /\ ex[e].monitorcounts[i] = 300
      /\ I(ex[e].li6counts[i]) = RMul(I(10), ex[e].countduration[i])
      /\ I(ex[e].li6background[i]) = RMul(I(10), ex[e].backgroundduration[i])
      /\ ex[e].beamcurrent[i] = <<R(1, 10), R(1, 10)>>

====
